---- MODULE Spec2Model ----
(***************************************************************************)
(* Model of the file-upload router of worked_app                           *)
(* (src/worked_app/app/routers/file_uploads.py): filename sanitising,      *)
(* type validation, destination naming, the bounded streaming writer, and  *)
(* retrieval / deletion of stored files.                                   *)
(*                                                                         *)
(* A string is a sequence of one-character strings. A path is the sequence *)
(* of the characters of str(path). The storage root var/uploads is written *)
(* /v/u. uuid4().hex (32 hex digits) is scaled to one hex digit, and each  *)
(* call of uuid4 yields a digit no earlier call has yielded; client input  *)
(* never contains a hex digit unless it repeats a name a response           *)
(* returned. MAX_FILE_SIZE_BYTES and CHUNK_SIZE are scaled from 10 MiB and *)
(* 1 MiB to 4 and 2 bytes, keeping the limit on a chunk boundary.          *)
(***************************************************************************)
EXTENDS Integers, Sequences, FiniteSets, TLC

\* ------------------------------------------------------------------ bounds
\* Number of upload requests of one process run.
NumReq == 2
\* Longest upload stream, in bytes.
MaxStreamLen == 5
\* Largest chunk size of the writer specification.
MaxChunk == 3
\* Longest input string of the sanitizer specification.
MaxNameLen == 4
\* Number of uuid4() calls of one run.
MaxUuid == 3

\* --------------------------------------------------------------- constants
MAX_FILE_SIZE_BYTES == 4
CHUNK_SIZE == 2

None == "None"

UPLOAD_DIR == <<"/", "v", "/", "u">>

ALLOWED_MIME_TYPES == {"image/jpeg", "image/png", "application/pdf"}

ALLOWED_EXTENSIONS ==
    { <<".", "j", "p", "g">>, <<".", "j", "p", "e", "g">>,
      <<".", "p", "n", "g">>, <<".", "p", "d", "f">> }

\* ------------------------------------------------------------- characters
HexDigits == <<"1", "2", "3", "4", "5", "6", "7", "8", "9">>

LowerLetters ==
    {"a", "b", "d", "e", "f", "g", "i", "j", "l", "m", "n", "o", "p", "u", "x"}

UpperLetters == {"P", "N", "G"}

\* The characters re.sub(r"[^a-zA-Z0-9._-]", "", base) keeps.
AllowedChars ==
    LowerLetters \cup UpperLetters \cup {HexDigits[i] : i \in DOMAIN HexDigits}
        \cup {".", "_", "-"}

\* str.strip() removes these from both ends.
Whitespace == {" ", "\t"}

\* str.lower() on one character.
LowerChar(c) ==
    CASE c = "P" -> "p"
      [] c = "N" -> "n"
      [] c = "G" -> "g"
      [] OTHER -> c

Lower(s) == [i \in 1..Len(s) |-> LowerChar(s[i])]

\* ---------------------------------------------------------------- strings
\* str.rfind(c) + 1: the last index of c in s, 0 when absent.
RFind(s, c) ==
    LET I == {i \in 1..Len(s) : s[i] = c}
    IN  IF I = {} THEN 0 ELSE CHOOSE i \in I : \A j \in I : j <= i

\* str.startswith
StartsWith(s, p) == Len(p) <= Len(s) /\ SubSeq(s, 1, Len(p)) = p

RECURSIVE LStrip(_)
LStrip(s) ==
    IF s # <<>> /\ Head(s) \in Whitespace THEN LStrip(Tail(s)) ELSE s

RECURSIVE RStrip(_)
RStrip(s) ==
    IF s # <<>> /\ s[Len(s)] \in Whitespace
    THEN RStrip(SubSeq(s, 1, Len(s) - 1)) ELSE s

Strip(s) == RStrip(LStrip(s))

\* str.replace(" ", "_")
ReplaceSpaces(s) == [i \in 1..Len(s) |-> IF s[i] = " " THEN "_" ELSE s[i]]

\* A faulty allow-set that leaves out the underscore: [^a-zA-Z0-9.-].
KeepAllowedNoUnderscore(c) == c \in AllowedChars \ {"_"}

KeepAllowed(c) == c \in AllowedChars

\* re.sub(r"[^a-zA-Z0-9._-]", "", base)
RemoveDisallowed(s) == SelectSeq(s, KeepAllowed)

\* --------------------------------------------------------------- pathlib
\* Path(s).name: the last component of s, where empty components and "."
\* components are dropped by pathlib's parsing; "" when none is left.
RECURSIVE PathName(_)
PathName(s) ==
    IF s = <<>> THEN <<>>
    ELSE LET k == RFind(s, "/")
             last == SubSeq(s, k + 1, Len(s))
         IN  IF last = <<>> \/ last = <<".">>
             THEN IF k = 0 THEN <<>> ELSE PathName(SubSeq(s, 1, k - 1))
             ELSE last

\* Path(s).suffix: from the last dot of the name, unless that dot is the
\* first or the last character of the name.
PathSuffix(s) ==
    LET name == PathName(s)
        i == RFind(name, ".")
    IN  IF 1 < i /\ i < Len(name) THEN SubSeq(name, i, Len(name)) ELSE <<>>

\* Path(s).stem
PathStem(s) ==
    LET name == PathName(s)
        i == RFind(name, ".")
    IN  IF 1 < i /\ i < Len(name) THEN SubSeq(name, 1, i - 1) ELSE name

\* (UPLOAD_DIR / name).resolve() for a name without "/": ".." is the parent
\* directory, "." and "" the directory itself. No symbolic link exists in
\* the storage root (no operation creates one).
ResolveInUploadDir(name) ==
    IF name = <<".", ".">> THEN <<"/", "v">>
    ELSE IF name = <<".">> \/ name = <<>> THEN UPLOAD_DIR
    ELSE UPLOAD_DIR \o <<"/">> \o name

\* A faulty token that is the same on every call.
Uuid4HexFixed(n) == <<HexDigits[1]>>

\* uuid4().hex of the n-th call.
Uuid4Hex(n) == <<HexDigits[n]>>

\* ------------------------------------------------------------- helpers
\* A faulty sanitizer without the fallback name: return base.
SanitizeNoFallback(name, tok) ==
    RemoveDisallowed(ReplaceSpaces(Strip(PathName(name))))

\* _sanitize_filename(name); tok is the uuid4().hex the fallback would use.
SanitizeFilename(name, tok) ==
    LET base == RemoveDisallowed(ReplaceSpaces(Strip(PathName(name))))
    IN  IF base # <<>> THEN base ELSE <<"f", "i", "l", "e", "_">> \o tok

\* TRUE when _sanitize_filename(name) calls uuid4().
SanitizeUsesUuid(name) ==
    RemoveDisallowed(ReplaceSpaces(Strip(PathName(name)))) = <<>>

_has_allowed_extension(filename) ==
    Lower(PathSuffix(filename)) \in ALLOWED_EXTENSIONS

\* mimetypes.guess_type(filename)[0]: by the lower-cased extension.
GuessType(filename) ==
    LET ext == Lower(PathSuffix(filename))
    IN  CASE ext \in {<<".", "j", "p", "g">>, <<".", "j", "p", "e", "g">>}
                -> "image/jpeg"
          [] ext = <<".", "p", "n", "g">> -> "image/png"
          [] ext = <<".", "p", "d", "f">> -> "application/pdf"
          [] ext = <<".", "b", "i", "n">> -> "application/octet-stream"
          [] ext = <<".", "e", "x", "e">> -> "application/x-msdos-program"
          [] OTHER -> None

\* A faulty check that trusts the declared type only, without the fallback.
IsAllowedMimeDeclaredOnly(content_type, filename) ==
    content_type \in ALLOWED_MIME_TYPES

_is_allowed_mime(content_type, filename) ==
    IF content_type \in ALLOWED_MIME_TYPES THEN TRUE
    ELSE GuessType(filename) \in ALLOWED_MIME_TYPES

\* A faulty destination name without the token.
UniqueNameNoToken(safe_name, tok) == safe_name

\* The name _unique_destination builds: f"{stem}__{uuid4().hex}{ext}".
UniqueName(safe_name, tok) ==
    PathStem(safe_name) \o <<"_", "_">> \o tok \o PathSuffix(safe_name)

_unique_destination(safe_name, tok) ==
    ResolveInUploadDir(UniqueName(safe_name, tok))

\* A missing containment check.
InsideUploadDirUnchecked(path) == TRUE

\* str(path).startswith(str(UPLOAD_DIR))
InsideUploadDir(path) == StartsWith(path, UPLOAD_DIR)

\* ------------------------------------------------------------ file system
\* The directories that exist; regular files are the domain of disk.
Dirs == {<<"/", "v">>, UPLOAD_DIR}

PathExists(d, p) == p \in DOMAIN d \/ p \in Dirs

PathIsFile(d, p) == p \in DOMAIN d

\* dest.touch(); dest.write_bytes(b"")
Truncate(d, p) == [q \in DOMAIN d \cup {p} |-> IF q = p THEN <<>> ELSE d[q]]

\* A faulty _write_chunk that opens the file with mode "wb".
WriteChunkTruncating(d, p, chunk) ==
    [q \in DOMAIN d \cup {p} |-> IF q = p THEN chunk ELSE d[q]]

\* _write_chunk: open(path, "ab") creates a missing file, then appends.
_write_chunk(d, p, chunk) ==
    [q \in DOMAIN d \cup {p} |->
        IF q = p THEN (IF p \in DOMAIN d THEN d[p] ELSE <<>>) \o chunk
        ELSE d[q]]

\* A faulty unlink that empties the directory.
UnlinkAll(d, p) == <<>>

\* Path.unlink
Unlink(d, p) == [q \in DOMAIN d \ {p} |-> d[q]]

\* A missing cleanup: the partial file is left behind.
UnlinkSkipped(d, p) == d

\* dest.unlink(missing_ok=True), the cleanup of the partial file
UnlinkMissingOk(d, p) == Unlink(d, p)

\* await up.read(size): the next size bytes of the stream, fewer at its end.
ReadStream(stream, pos, size) ==
    SubSeq(stream, pos + 1, IF pos + size <= Len(stream)
                            THEN pos + size ELSE Len(stream))

\* A faulty count of the bytes requested, not of the bytes read.
AddTotalRequested(total, chunk) == total + CHUNK_SIZE

\* A faulty count that never grows.
AddTotalNothing(total, chunk) == total

\* total += len(chunk)
AddTotal(total, chunk) == total + Len(chunk)

\* A faulty limit test that is off by one: total >= max_bytes.
ExceedsLimitOffByOne(total, max_bytes) == total >= max_bytes

\* A faulty limit test that never fires.
ExceedsLimitNever(total, max_bytes) == FALSE

\* if total > max_bytes
ExceedsLimit(total, max_bytes) == total > max_bytes

\* A faulty end test that takes a short read for the end of the stream.
StreamExhaustedOnShortRead(chunk) == Len(chunk) < CHUNK_SIZE

\* if not chunk: break
StreamExhausted(chunk) == chunk = <<>>

\* ----------------------------------------------------------------- inputs
Req == 1..NumReq

\* The bytes of request r's stream of n bytes: every byte of a run is
\* distinct, so that a file's content names the stream and the position of
\* each of its bytes.
StreamOf(r, n) == [i \in 1..n |-> r * 16 + i]

\* file.filename of an upload; <<>> is a missing or empty filename.
UploadNames ==
    { <<>>,
      <<"a", ".", "p", "n", "g">>,
      <<".", ".", "/", "a", ".", "p", "d", "f">>,
      <<"a", " ", "b", ".", "P", "N", "G">>,
      <<"m", ".", "e", "x", "e">>,
      <<"#", ".", "p", "n", "g">>,
      <<".", ".">> }

\* file.content_type of an upload.
ContentTypes == {None, "image/png", "text/plain"}

\* The uploads a client sends: every filename, every declared content type
\* and every stream length occurs, on a plain request otherwise.
PlainName == <<"a", ".", "p", "n", "g">>

UploadInputs ==
    {[filename |-> f, content_type |-> None, n |-> 1] : f \in UploadNames}
    \cup {[filename |-> PlainName, content_type |-> ct, n |-> 1] :
            ct \in ContentTypes}
    \cup {[filename |-> PlainName, content_type |-> None, n |-> k] :
            k \in 0..MaxStreamLen}

\* stored_name of a retrieval or deletion that repeats no returned name.
ProbeNames ==
    { <<".", ".">>, <<".", " ">>, <<"#">>, <<"a", ".", "p", "n", "g">> }

NoMeta == <<>>

IdleRequest ==
    [pc |-> "idle", filename |-> <<>>, content_type |-> None, stream |-> <<>>,
     pos |-> 0, consumed |-> 0, total |-> 0, chunk |-> <<>>, safe |-> <<>>, dest |-> <<>>,
     status |-> 0, detail |-> "", limit |-> 0, meta |-> NoMeta]

NoResponse ==
    [op |-> "none", name |-> <<>>, path |-> <<>>, status |-> 0, body |-> <<>>]

VARIABLES
    disk,      \* regular files: path |-> content
    req,       \* the upload requests
    uuids,     \* number of uuid4() calls so far
    io,        \* history: the file operations performed, <<kind, path>>
    resp,      \* the response of the latest retrieval or deletion
    deleted,   \* history: the paths deletion has removed
    faults,    \* history: the storage failures and what was reported
    sanPc, sanIn, sanOut, sanDest,   \* sanitizer specification
    sanAgain, sanDestAgain,          \* the sanitizer applied a second time
    valCt, valRes,   \* validation specification: declared type and outcome
    wr,        \* writer specification: two writers on the same stream
    chain,     \* the requests to GET /api/chain
    events,    \* the lines the yield dependencies have printed
    mail,      \* the requests to POST /notifications/send
    db,        \* the requests that use the DB session dependency
    mw,        \* the requests passing through the middleware stack
    store,     \* the body-update item store and its latest response
    shard,     \* the runs of the test sharder
    dw,        \* two workers deleting the same stored name
    multi      \* a request to POST /upload/multiple

uploadVars == <<disk, req, io, resp, deleted, faults>>

sanVars == <<sanPc, sanIn, sanOut, sanDest, sanAgain, sanDestAgain>>

valVars == <<valCt, valRes>>

chainVars == <<chain, events>>

\* The variables of the other routers, the middleware and the scripts.
appVars == <<mail, db, mw, store, shard, dw, multi>>

\* The variables the upload router does not touch.
auxVars == <<sanVars, valVars, wr, chainVars, appVars>>

vars == <<uploadVars, uuids, auxVars>>

\* ------------------------------------------------------------------ upload
\* file.filename or "upload.bin"
OriginalName(filename) ==
    IF filename # <<>> THEN filename
    ELSE <<"u", "p", "l", "o", "a", "d", ".", "b", "i", "n">>

Rejected(d, u, code, detail) ==
    [status |-> code, detail |-> detail, safe |-> <<>>, dest |-> <<>>,
     disk |-> d, uuids |-> u, created |-> {}]

\* A faulty upload_single that validates only after the file is created.
UploadBeginValidateLate(d, u, filename, content_type) ==
    LET original == OriginalName(filename)
        u1 == IF SanitizeUsesUuid(original) THEN u + 1 ELSE u
        safe == SanitizeFilename(original, Uuid4Hex(u + 1))
        dest == _unique_destination(safe, Uuid4Hex(u1 + 1))
        made == [status |-> 0, detail |-> "", safe |-> safe, dest |-> dest,
                 disk |-> Truncate(d, dest), uuids |-> u1 + 1,
                 created |-> {dest}]
    IN  IF ~_has_allowed_extension(safe)
        THEN [made EXCEPT !.status = 400,
                          !.detail = "Unsupported file extension"]
        ELSE made

\* upload_single up to its first await: validation, destination naming, and
\* _save_streaming_with_limit up to the loop (containment check, creation of
\* the empty destination file). status 0: the upload goes on to the loop.
UploadBegin(d, u, filename, content_type) ==
    LET original == OriginalName(filename)
        u1 == IF SanitizeUsesUuid(original) THEN u + 1 ELSE u
        safe == SanitizeFilename(original, Uuid4Hex(u + 1))
        dest == _unique_destination(safe, Uuid4Hex(u1 + 1))
    IN  IF ~_has_allowed_extension(safe)
        THEN Rejected(d, u1, 400, "Unsupported file extension")
        ELSE IF ~_is_allowed_mime(content_type, safe)
        THEN Rejected(d, u1, 400, "Unsupported content type")
        ELSE IF ~InsideUploadDir(dest)
        THEN [Rejected(d, u1 + 1, 400, "Invalid destination path")
                EXCEPT !.safe = safe, !.dest = dest]
        ELSE [status |-> 0, detail |-> "", safe |-> safe, dest |-> dest,
              disk |-> Truncate(d, dest), uuids |-> u1 + 1,
              created |-> {dest}]

\* FileMeta(...) of upload_single
FileMetaOf(q, size) ==
    [filename |-> PathName(q.dest),
     original_filename |-> OriginalName(q.filename),
     content_type |->
        IF q.content_type # None THEN q.content_type
        ELSE IF GuessType(q.safe) # None THEN GuessType(q.safe)
        ELSE "application/octet-stream",
     size_bytes |-> size,
     url |-> <<"/", "u", "p", "l", "o", "a", "d", "/",
               "f", "i", "l", "e", "s", "/">> \o PathName(q.dest)]

\* A request arrives at POST /upload/single and runs to its first await.
\* Requests are numbered in the order of their arrival.
UploadStart(r) ==
    /\ req[r].pc = "idle"
    /\ \A q \in 1..(r - 1) : req[q].pc # "idle"
    /\ \E in \in UploadInputs :
         LET filename == in.filename
             ct == in.content_type
             n == in.n
             b == UploadBegin(disk, uuids, filename, ct)
         IN  /\ b.uuids <= MaxUuid
             /\ disk' = b.disk
             /\ uuids' = b.uuids
             /\ io' = io \cup {<<"create", p>> : p \in b.created}
             /\ req' = [req EXCEPT ![r] =
                    [@ EXCEPT !.pc = IF b.status = 0 THEN "read" ELSE "done",
                              !.filename = filename,
                              !.content_type = ct,
                              !.stream = StreamOf(r, n),
                              !.safe = b.safe,
                              !.dest = b.dest,
                              !.status = b.status,
                              !.detail = b.detail]]
    /\ UNCHANGED <<resp, deleted, faults, auxVars>>

\* chunk = await up.read(CHUNK_SIZE) returns a chunk that keeps the total
\* within the limit; the write is handed to the thread pool.
ReadChunk(r) ==
    /\ req[r].pc = "read"
    /\ LET chunk == ReadStream(req[r].stream, req[r].pos, CHUNK_SIZE)
           total == AddTotal(req[r].total, chunk)
       IN  /\ ~StreamExhausted(chunk)
           /\ ~ExceedsLimit(total, MAX_FILE_SIZE_BYTES)
           /\ req' = [req EXCEPT ![r] =
                  [@ EXCEPT !.pc = "write", !.chunk = chunk, !.total = total,
                            !.pos = @ + Len(chunk),
                            !.consumed = @ + Len(chunk)]]
    /\ UNCHANGED <<disk, uuids, io, resp, deleted, faults, auxVars>>

\* The chunk read brings the total over the limit: the partial file is
\* unlinked (missing_ok) and HTTP 413 is raised.
ReadOverLimit(r) ==
    /\ req[r].pc = "read"
    /\ LET chunk == ReadStream(req[r].stream, req[r].pos, CHUNK_SIZE)
           total == AddTotal(req[r].total, chunk)
       IN  /\ ~StreamExhausted(chunk)
           /\ ExceedsLimit(total, MAX_FILE_SIZE_BYTES)
           /\ disk' = UnlinkMissingOk(disk, req[r].dest)
           /\ io' = io \cup {<<"unlink", req[r].dest>>}
           /\ req' = [req EXCEPT ![r] =
                  [@ EXCEPT !.pc = "done", !.chunk = chunk, !.total = total,
                            !.pos = @ + Len(chunk),
                            !.consumed = @ + Len(chunk),
                            !.status = 413, !.detail = "File too large",
                            !.limit = MAX_FILE_SIZE_BYTES]]
    /\ UNCHANGED <<uuids, resp, deleted, faults, auxVars>>

\* The read returns no chunk: the loop ends and up.seek(0) is awaited.
ReadEnd(r) ==
    /\ req[r].pc = "read"
    /\ StreamExhausted(ReadStream(req[r].stream, req[r].pos, CHUNK_SIZE))
    /\ req' = [req EXCEPT ![r] = [@ EXCEPT !.pc = "seek", !.chunk = <<>>]]
    /\ UNCHANGED <<disk, uuids, io, resp, deleted, faults, auxVars>>

\* await asyncio.to_thread(_write_chunk, dest, chunk) completes.
WriteChunk(r) ==
    /\ req[r].pc = "write"
    /\ disk' = _write_chunk(disk, req[r].dest, req[r].chunk)
    /\ io' = io \cup {<<"write", req[r].dest>>}
    /\ req' = [req EXCEPT ![r] = [@ EXCEPT !.pc = "read"]]
    /\ UNCHANGED <<uuids, resp, deleted, faults, auxVars>>

\* up.seek(0) completes; _save_streaming_with_limit returns total and
\* upload_single returns the FileMeta (HTTP 201).
UploadReturn(r) ==
    /\ req[r].pc = "seek"
    /\ req' = [req EXCEPT ![r] =
           [@ EXCEPT !.pc = "done", !.pos = 0, !.status = 201,
                     !.meta = <<FileMetaOf(req[r], req[r].total)>>]]
    /\ UNCHANGED <<disk, uuids, io, resp, deleted, faults, auxVars>>

\* ------------------------------------------------- retrieval and deletion
\* The stored names the responses of this run have returned.
ReturnedNames ==
    {req[r].meta[1].filename : r \in {q \in Req : req[q].meta # NoMeta}}

\* get_file(stored_name): status, resolved path and body of the response.
get_file(d, stored_name, tok) ==
    LET safe_name == SanitizeFilename(stored_name, tok)
        file_path == ResolveInUploadDir(safe_name)
    IN  IF ~InsideUploadDir(file_path)
        THEN [op |-> "get", name |-> stored_name, path |-> file_path,
              status |-> 400, body |-> <<>>]
        ELSE IF ~PathExists(d, file_path) \/ ~PathIsFile(d, file_path)
        THEN [op |-> "get", name |-> stored_name, path |-> file_path,
              status |-> 404, body |-> <<>>]
        ELSE [op |-> "get", name |-> stored_name, path |-> file_path,
              status |-> 200, body |-> d[file_path]]

\* A faulty delete_file without the exists / is_file test.
DeleteFileNoExistsCheck(d, stored_name, tok) ==
    LET safe_name == SanitizeFilename(stored_name, tok)
        file_path == ResolveInUploadDir(safe_name)
    IN  [op |-> "delete", name |-> stored_name, path |-> file_path,
         status |-> IF InsideUploadDir(file_path) THEN 204 ELSE 400,
         body |-> <<>>]

\* delete_file(stored_name): status and resolved path of the response.
delete_file(d, stored_name, tok) ==
    LET safe_name == SanitizeFilename(stored_name, tok)
        file_path == ResolveInUploadDir(safe_name)
    IN  IF ~InsideUploadDir(file_path)
        THEN [op |-> "delete", name |-> stored_name, path |-> file_path,
              status |-> 400, body |-> <<>>]
        ELSE IF ~PathExists(d, file_path) \/ ~PathIsFile(d, file_path)
        THEN [op |-> "delete", name |-> stored_name, path |-> file_path,
              status |-> 404, body |-> <<>>]
        ELSE [op |-> "delete", name |-> stored_name, path |-> file_path,
              status |-> 204, body |-> <<>>]

\* GET /upload/files/{stored_name}
GetFile ==
    /\ \E name \in ProbeNames \cup ReturnedNames :
         LET u == IF SanitizeUsesUuid(name) THEN uuids + 1 ELSE uuids
             g == get_file(disk, name, Uuid4Hex(uuids + 1))
         IN  /\ u <= MaxUuid
             /\ uuids' = u
             /\ resp' = g
             /\ io' = IF g.status = 200 THEN io \cup {<<"read", g.path>>}
                      ELSE io
    /\ UNCHANGED <<disk, req, deleted, faults, auxVars>>

\* DELETE /upload/files/{stored_name}
DeleteFile ==
    /\ \E name \in ProbeNames \cup ReturnedNames :
         LET u == IF SanitizeUsesUuid(name) THEN uuids + 1 ELSE uuids
             g == delete_file(disk, name, Uuid4Hex(uuids + 1))
         IN  /\ u <= MaxUuid
             /\ uuids' = u
             /\ resp' = g
             /\ disk' = IF g.status = 204 THEN Unlink(disk, g.path) ELSE disk
             /\ io' = IF g.status = 204 THEN io \cup {<<"unlink", g.path>>}
                      ELSE io
             /\ deleted' = IF g.status = 204 THEN deleted \cup {g.path}
                           ELSE deleted
    /\ UNCHANGED <<req, faults, auxVars>>

\* ---------------------------------------------------------- specification
\* The upload directory is empty and no request has arrived.
UploadIdle ==
    /\ disk = <<>>
    /\ req = [r \in Req |-> IdleRequest]
    /\ io = {}
    /\ resp = NoResponse
    /\ deleted = {}
    /\ faults = {}

SanIdle ==
    /\ sanPc = "in"
    /\ sanOut = <<>>
    /\ sanDest = <<>>
    /\ sanAgain = <<>>
    /\ sanDestAgain = <<>>

ValIdle == valCt = None /\ valRes = <<>>

WrIdle == wr = <<>>

ChainIdle == chain = <<>> /\ events = <<>>

AppIdle ==
    /\ mail = <<>>
    /\ db = <<>>
    /\ mw = <<>>
    /\ store = <<>>
    /\ shard = <<>>
    /\ dw = <<>>
    /\ multi = <<>>

Init ==
    /\ UploadIdle
    /\ uuids = 0
    /\ sanIn = <<>>
    /\ SanIdle
    /\ ValIdle
    /\ WrIdle
    /\ ChainIdle
    /\ AppIdle

Next ==
    \/ \E r \in Req : UploadStart(r)
    \/ \E r \in Req : ReadChunk(r)
    \/ \E r \in Req : ReadOverLimit(r)
    \/ \E r \in Req : ReadEnd(r)
    \/ \E r \in Req : WriteChunk(r)
    \/ \E r \in Req : UploadReturn(r)
    \/ GetFile
    \/ DeleteFile

Spec == Init /\ [][Next]_vars

\* ------------------------------------------ storage faults and cancellation
\* A faulty cleanup whose unlink error reaches the caller.
CleanupOutcomePropagates(unlink_raised) == IF unlink_raised THEN 500 ELSE 413

\* try: dest.unlink(missing_ok=True) / except Exception: pass, then
\* raise HTTPException(413): the status of the response.
CleanupOutcome(unlink_raised) == 413

\* try: file_path.unlink() / except Exception: raise HTTPException(500),
\* else return None (204): the status of the response.
DeleteOutcome(unlink_raised) == IF unlink_raised THEN 500 ELSE 204

\* A faulty writer that swallows the error of a write and reads on.
WriteOutcomeSwallowed(write_raised) == 0

\* await asyncio.to_thread(_write_chunk, dest, chunk) with no try around
\* it, here or in upload_single: an error of open or write ends the request
\* with the framework's 500 response; 0 is no response yet.
WriteOutcome(write_raised) == IF write_raised THEN 500 ELSE 0

\* The requests of the specification with faults.
FaultReq == {1}

\* The chunk read brings the total over the limit and dest.unlink raises:
\* the error is passed over and HTTP 413 is raised.
ReadOverLimitUnlinkFails(r) ==
    /\ req[r].pc = "read"
    /\ LET chunk == ReadStream(req[r].stream, req[r].pos, CHUNK_SIZE)
           total == AddTotal(req[r].total, chunk)
       IN  /\ ~StreamExhausted(chunk)
           /\ ExceedsLimit(total, MAX_FILE_SIZE_BYTES)
           /\ faults' = faults \cup
                 {[kind |-> "cleanup_unlink", path |-> req[r].dest,
                   reported |-> CleanupOutcome(TRUE)]}
           /\ req' = [req EXCEPT ![r] =
                  [@ EXCEPT !.pc = "done", !.chunk = chunk, !.total = total,
                            !.pos = @ + Len(chunk),
                            !.consumed = @ + Len(chunk),
                            !.status = CleanupOutcome(TRUE),
                            !.detail = "File too large",
                            !.limit = MAX_FILE_SIZE_BYTES]]
    /\ UNCHANGED <<disk, uuids, io, resp, deleted, auxVars>>

\* _write_chunk raises in the thread after it has written k bytes of the
\* chunk (k = 0: open raised, or write wrote nothing).
WriteChunkFails(r) ==
    /\ req[r].pc = "write"
    /\ \E k \in 0..(Len(req[r].chunk) - 1) :
         LET outcome == WriteOutcome(TRUE)
         IN  /\ disk' = IF k = 0 THEN disk
                        ELSE _write_chunk(disk, req[r].dest,
                                          SubSeq(req[r].chunk, 1, k))
             /\ io' = IF k = 0 THEN io ELSE io \cup {<<"write", req[r].dest>>}
             /\ faults' = faults \cup
                   {[kind |-> "write", path |-> req[r].dest,
                     reported |-> outcome]}
             /\ req' = [req EXCEPT ![r] =
                    IF outcome = 0 THEN [@ EXCEPT !.pc = "read"]
                    ELSE [@ EXCEPT !.pc = "done", !.status = outcome,
                                   !.detail = "Internal Server Error"]]
    /\ UNCHANGED <<uuids, resp, deleted, auxVars>>

\* DELETE /upload/files/{stored_name} of an existing file whose unlink
\* raises.
DeleteFileUnlinkFails ==
    /\ \E name \in ProbeNames \cup ReturnedNames :
         LET u == IF SanitizeUsesUuid(name) THEN uuids + 1 ELSE uuids
             g == delete_file(disk, name, Uuid4Hex(uuids + 1))
             outcome == DeleteOutcome(TRUE)
         IN  /\ u <= MaxUuid
             /\ g.status = 204
             /\ uuids' = u
             /\ resp' = [g EXCEPT !.status = outcome]
             /\ faults' = faults \cup
                   {[kind |-> "delete_unlink", path |-> g.path,
                     reported |-> outcome]}
    /\ UNCHANGED <<disk, req, io, deleted, auxVars>>

\* The task of the request is cancelled while it is suspended in
\* await up.read, await asyncio.to_thread or await up.seek: CancelledError
\* is raised at the await, and no except or finally of
\* _save_streaming_with_limit or upload_single runs. The thread of a
\* pending _write_chunk is not interrupted.
Cancel(r) ==
    /\ req[r].pc \in {"read", "write", "seek"}
    /\ req' = [req EXCEPT ![r] =
           [@ EXCEPT !.pc = IF req[r].pc = "write" THEN "orphan"
                            ELSE "cancelled"]]
    /\ UNCHANGED <<disk, uuids, io, resp, deleted, faults, auxVars>>

\* The thread of a cancelled request completes its _write_chunk.
OrphanWrite(r) ==
    /\ req[r].pc = "orphan"
    /\ disk' = _write_chunk(disk, req[r].dest, req[r].chunk)
    /\ io' = io \cup {<<"write", req[r].dest>>}
    /\ req' = [req EXCEPT ![r] = [@ EXCEPT !.pc = "cancelled"]]
    /\ UNCHANGED <<uuids, resp, deleted, faults, auxVars>>

NextFault ==
    \/ \E r \in FaultReq : UploadStart(r)
    \/ \E r \in FaultReq : ReadChunk(r)
    \/ \E r \in FaultReq : ReadOverLimit(r)
    \/ \E r \in FaultReq : ReadEnd(r)
    \/ \E r \in FaultReq : WriteChunk(r)
    \/ \E r \in FaultReq : UploadReturn(r)
    \/ GetFile
    \/ DeleteFile
    \/ \E r \in FaultReq : ReadOverLimitUnlinkFails(r)
    \/ \E r \in FaultReq : WriteChunkFails(r)
    \/ DeleteFileUnlinkFails
    \/ \E r \in FaultReq : Cancel(r)
    \/ \E r \in FaultReq : OrphanWrite(r)

SpecFault == Init /\ [][NextFault]_vars

\* ------------------------------------------- the sanitizer on every string
\* The characters of the sanitizer's inputs: a letter, the dot, the path
\* separator, the space, the tab, the underscore and a character outside
\* the allow-set.
SanChars == {"a", ".", "/", " ", "\t", "_", "#"}

RECURSIVE StringsUpTo(_)
StringsUpTo(n) ==
    IF n = 0 THEN {<<>>}
    ELSE LET S == StringsUpTo(n - 1)
         IN  S \cup {Append(t, c) : t \in {x \in S : Len(x) = n - 1},
                                    c \in SanChars}

\* safe = _sanitize_filename(name)
SanitizeStep ==
    /\ sanPc = "in"
    /\ sanOut' = SanitizeFilename(sanIn, Uuid4Hex(uuids + 1))
    /\ uuids' = IF SanitizeUsesUuid(sanIn) THEN uuids + 1 ELSE uuids
    /\ sanPc' = "sanitized"
    /\ UNCHANGED <<uploadVars, sanIn, sanDest, sanAgain, sanDestAgain,
                   valVars, wr, chainVars, appVars>>

\* _unique_destination(safe).name, the stored filename
DestinationStep ==
    /\ sanPc = "sanitized"
    /\ sanDest' = PathName(_unique_destination(sanOut, Uuid4Hex(uuids + 1)))
    /\ uuids' = uuids + 1
    /\ sanPc' = "named"
    /\ UNCHANGED <<uploadVars, sanIn, sanOut, sanAgain, sanDestAgain,
                   valVars, wr, chainVars, appVars>>

\* _sanitize_filename applied to the sanitized name and to the stored
\* filename, as get_file and delete_file apply it to a stored name.
ResanitizeStep ==
    /\ sanPc = "named"
    /\ sanAgain' = SanitizeFilename(sanOut, Uuid4Hex(uuids + 1))
    /\ sanDestAgain' = SanitizeFilename(sanDest, Uuid4Hex(uuids + 1))
    /\ uuids' = IF SanitizeUsesUuid(sanOut) \/ SanitizeUsesUuid(sanDest)
                THEN uuids + 1 ELSE uuids
    /\ sanPc' = "again"
    /\ UNCHANGED <<uploadVars, sanIn, sanOut, sanDest, valVars, wr,
                   chainVars, appVars>>

InitSan ==
    /\ UploadIdle
    /\ uuids = 0
    /\ sanIn \in StringsUpTo(MaxNameLen)
    /\ SanIdle
    /\ ValIdle
    /\ WrIdle
    /\ ChainIdle
    /\ AppIdle

NextSan == SanitizeStep \/ DestinationStep \/ ResanitizeStep

SpecSan == InitSan /\ [][NextSan]_vars

\* ------------------------------------- type validation on every request
\* file.filename of the validation specification.
ValNames ==
    UploadNames \cup
    { <<"a", ".", "p", "d", "f">>,
      <<"a", ".", "j", "p", "e", "g">>,
      <<"a", ".", "j", "p", "g">>,
      <<"a", ".", "b", "i", "n">>,
      <<"a", ".", "p", "n", "g", ".", "e", "x", "e">>,
      <<"a", ".", "e", "x", "e", ".", "p", "n", "g">>,
      <<"p", "n", "g">>,
      <<".", "p", "n", "g">>,
      <<"a", ".", "p", "n", "g", ".">>,
      <<"a", ".", "P", "n", "G", " ">>,
      <<"#">>,
      <<" ">> }

\* file.content_type of the validation specification.
ValTypes ==
    {None, "image/png", "image/jpeg", "application/pdf", "text/plain",
     "application/octet-stream"}

\* upload_single on an empty upload directory, up to its first await.
ValidateStep ==
    /\ valRes = <<>>
    /\ valRes' = <<UploadBegin(<<>>, 0, sanIn, valCt)>>
    /\ UNCHANGED <<uploadVars, uuids, sanVars, valCt, wr, chainVars, appVars>>

InitVal ==
    /\ UploadIdle
    /\ uuids = 0
    /\ sanIn \in ValNames
    /\ SanIdle
    /\ valCt \in ValTypes
    /\ valRes = <<>>
    /\ WrIdle
    /\ ChainIdle
    /\ AppIdle

NextVal == ValidateStep

SpecVal == InitVal /\ [][NextVal]_vars

\* ------------------------------- the writer on every chunk size and limit
\* _save_streaming_with_limit(up, dest, max_bytes) run twice on the same
\* stream and limit, once with each of two values of CHUNK_SIZE, each run
\* on a destination of its own; the second run starts when the first has
\* ended.
Writers == {1, 2}

WriterDest(i) == ResolveInUploadDir(<<"w", "_", "_">> \o Uuid4Hex(i))

IdleWriter(c) ==
    [chunk_size |-> c, pc |-> "idle", pos |-> 0, total |-> 0,
     chunk |-> <<>>, result |-> "none", returned |-> 0]

\* total = 0; the containment check; the destination is created empty.
WriterStart(i) ==
    /\ wr # <<>>
    /\ wr.w[i].pc = "idle"
    /\ \A j \in 1..(i - 1) : wr.w[j].pc = "done"
    /\ InsideUploadDir(WriterDest(i))
    /\ wr' = [wr EXCEPT !.disk = Truncate(@, WriterDest(i)),
                        !.w[i].pc = "read"]
    /\ UNCHANGED <<uploadVars, uuids, sanVars, sanIn, valVars, chainVars, appVars>>

\* chunk = await up.read(CHUNK_SIZE), and the loop body up to the write.
WriterRead(i) ==
    /\ wr # <<>>
    /\ wr.w[i].pc = "read"
    /\ LET x == wr.w[i]
           chunk == ReadStream(wr.stream, x.pos, x.chunk_size)
           total == AddTotal(x.total, chunk)
       IN  wr' =
             IF StreamExhausted(chunk)
             THEN [wr EXCEPT !.w[i].pc = "done", !.w[i].result = "ok",
                             !.w[i].returned = x.total]
             ELSE IF ExceedsLimit(total, wr.max_bytes)
             THEN [wr EXCEPT !.disk = UnlinkMissingOk(@, WriterDest(i)),
                             !.w[i].pc = "done", !.w[i].result = "413",
                             !.w[i].total = total,
                             !.w[i].pos = @ + Len(chunk)]
             ELSE [wr EXCEPT !.w[i].pc = "write", !.w[i].chunk = chunk,
                             !.w[i].total = total,
                             !.w[i].pos = @ + Len(chunk)]
    /\ UNCHANGED <<uploadVars, uuids, sanVars, sanIn, valVars, chainVars, appVars>>

\* await asyncio.to_thread(_write_chunk, dest, chunk)
WriterWrite(i) ==
    /\ wr # <<>>
    /\ wr.w[i].pc = "write"
    /\ wr' = [wr EXCEPT
                !.disk = _write_chunk(@, WriterDest(i), wr.w[i].chunk),
                !.w[i].pc = "read"]
    /\ UNCHANGED <<uploadVars, uuids, sanVars, sanIn, valVars, chainVars, appVars>>

InitWr ==
    /\ UploadIdle
    /\ uuids = 0
    /\ sanIn = <<>>
    /\ SanIdle
    /\ ValIdle
    /\ wr \in {[stream |-> StreamOf(1, n), max_bytes |-> mx, disk |-> <<>>,
                 w |-> <<IdleWriter(c1), IdleWriter(c2)>>] :
                    n \in 0..MaxStreamLen, mx \in 0..MaxStreamLen,
                    c1 \in 1..MaxChunk, c2 \in 1..MaxChunk}
    /\ ChainIdle
    /\ AppIdle

NextWr ==
    \/ \E i \in Writers : WriterStart(i)
    \/ \E i \in Writers : WriterRead(i)
    \/ \E i \in Writers : WriterWrite(i)

SpecWr == InitWr /\ [][NextWr]_vars

\* ------------------------------------------- the yield-dependency chain
\* Concurrent requests to GET /deps/chain.
NumChainReq == 3

ChainReq == 1..NumChainReq

\* A faulty declaration in which no dependency has a sub-dependency.
NoSubDependency(dep) == <<>>

\* The Depends(...) parameters: dependency_c needs dependency_b, which
\* needs dependency_a; the endpoint chain needs dependency_c.
SubDependency(dep) ==
    CASE dep = "chain" -> <<"DepC">>
      [] dep = "DepC" -> <<"DepB">>
      [] dep = "DepB" -> <<"DepA">>
      [] OTHER -> <<>>

\* The order in which a request enters the dependencies of dep: the
\* sub-dependencies of each first, then the dependency itself.
RECURSIVE SolveOrder(_)
SolveOrder(dep) ==
    LET subs == SubDependency(dep)
    IN  IF subs = <<>> THEN <<>>
        ELSE SolveOrder(subs[1]) \o <<subs[1]>>

IdleChain == [pc |-> "idle", todo |-> <<>>, stack |-> <<>>]

\* The request arrives and its dependencies are to be solved.
ChainBegin(c) ==
    /\ chain[c].pc = "idle"
    /\ chain' = [chain EXCEPT ![c] =
           [@ EXCEPT !.pc = "solve", !.todo = SolveOrder("chain")]]
    /\ UNCHANGED <<uploadVars, uuids, sanVars, valVars, wr, events, appVars>>

\* dependency_x runs to its yield: print("DepX: open"); the generator is
\* pushed on the exit stack of the request.
DepOpen(c) ==
    /\ chain[c].pc = "solve"
    /\ chain[c].todo # <<>>
    /\ LET dep == Head(chain[c].todo)
       IN  /\ events' = [events EXCEPT ![c] = Append(@, <<dep, "open">>)]
           /\ chain' = [chain EXCEPT ![c] =
                  [@ EXCEPT !.todo = Tail(@),
                            !.stack = Append(@, dep)]]
    /\ UNCHANGED <<uploadVars, uuids, sanVars, valVars, wr, appVars>>

\* Every dependency is entered: chain(dep_c) runs and returns its body.
ChainHandler(c) ==
    /\ chain[c].pc = "solve"
    /\ chain[c].todo = <<>>
    /\ events' = [events EXCEPT ![c] = Append(@, <<"chain", "handler">>)]
    /\ chain' = [chain EXCEPT ![c] = [@ EXCEPT !.pc = "exit"]]
    /\ UNCHANGED <<uploadVars, uuids, sanVars, valVars, wr, appVars>>

\* The exit stack resumes the generator pushed last: its finally block
\* runs dep_x.close(...).
DepClose(c) ==
    /\ chain[c].pc = "exit"
    /\ chain[c].stack # <<>>
    /\ LET n == Len(chain[c].stack)
           dep == chain[c].stack[n]
       IN  /\ events' = [events EXCEPT ![c] = Append(@, <<dep, "close">>)]
           /\ chain' = [chain EXCEPT ![c] =
                  [@ EXCEPT !.stack = SubSeq(@, 1, n - 1),
                            !.pc = IF n = 1 THEN "done" ELSE "exit"]]
    /\ UNCHANGED <<uploadVars, uuids, sanVars, valVars, wr, appVars>>

InitChain ==
    /\ UploadIdle
    /\ uuids = 0
    /\ sanIn = <<>>
    /\ SanIdle
    /\ ValIdle
    /\ WrIdle
    /\ chain = [c \in ChainReq |-> IdleChain]
    /\ events = [c \in ChainReq |-> <<>>]
    /\ AppIdle

NextChain ==
    \/ \E c \in ChainReq : ChainBegin(c)
    \/ \E c \in ChainReq : DepOpen(c)
    \/ \E c \in ChainReq : ChainHandler(c)
    \/ \E c \in ChainReq : DepClose(c)

SpecChain == InitChain /\ [][NextChain]_vars

\* ----------------------------------------------- the other specifications
\* The variables of the upload router, the sanitizer, the validation, the
\* writer and the dependency chain.
coreVars == <<uploadVars, uuids, sanVars, valVars, wr, chainVars>>

CoreIdle ==
    /\ UploadIdle
    /\ uuids = 0
    /\ sanIn = <<>>
    /\ SanIdle
    /\ ValIdle
    /\ WrIdle
    /\ ChainIdle

\* --------------------------------------------------- POST /notifications/send
\* Concurrent requests to the endpoint.
NumMail == 3

MailReq == 1..NumMail

\* The email query parameter: the address of the test, the empty string
\* and a string that is no address.
Emails == {"a@b.com", "", "x"}

\* A faulty queue_email that calls send_email itself and queues nothing.
QueueEmailInline(email, subject, body) ==
    [ran |-> <<[func |-> "send_email", email |-> email,
                subject |-> subject, body |-> body]>>,
     tasks |-> <<>>,
     status |-> 200,
     content |-> [status |-> "queued", to |-> email]]

\* queue_email(email, subject, body, background_tasks): the calls it makes
\* itself, the tasks it adds and its response. background_tasks is the
\* BackgroundTasks object of the request, never None.
queue_email(email, subject, body) ==
    [ran |-> <<>>,
     tasks |-> <<[func |-> "send_email", email |-> email,
                  subject |-> subject, body |-> body]>>,
     status |-> 200,
     content |-> [status |-> "queued", to |-> email]]

IdleMail ==
    [pc |-> "idle", email |-> "", tasks |-> <<>>, ran |-> <<>>,
     status |-> 0, content |-> <<>>, sent |-> FALSE, ranBeforeSent |-> FALSE]

\* The handler runs with the default subject and body.
MailHandle(n) ==
    /\ mail[n].pc = "idle"
    /\ \E email \in Emails :
         LET q == queue_email(email, "Welcome!", "Thanks for signing up.")
         IN  mail' = [mail EXCEPT ![n] =
                 [@ EXCEPT !.pc = "handled", !.email = email,
                           !.tasks = q.tasks, !.ran = q.ran,
                           !.status = q.status, !.content = q.content,
                           !.ranBeforeSent = q.ran # <<>>]]
    /\ UNCHANGED <<coreVars, db, mw, store, shard, dw, multi>>

\* The response is sent to the client.
MailRespond(n) ==
    /\ mail[n].pc = "handled"
    /\ mail' = [mail EXCEPT ![n] = [@ EXCEPT !.pc = "sent", !.sent = TRUE]]
    /\ UNCHANGED <<coreVars, db, mw, store, shard, dw, multi>>

\* The background tasks of the response run, in the order they were added.
MailRunTask(n) ==
    /\ mail[n].pc = "sent"
    /\ mail' = [mail EXCEPT ![n] =
           IF mail[n].tasks = <<>> THEN [@ EXCEPT !.pc = "done"]
           ELSE [@ EXCEPT !.tasks = Tail(@),
                          !.ran = Append(@, Head(mail[n].tasks))]]
    /\ UNCHANGED <<coreVars, db, mw, store, shard, dw, multi>>

InitMail ==
    /\ CoreIdle
    /\ mail = [n \in MailReq |-> IdleMail]
    /\ db = <<>>
    /\ mw = <<>>
    /\ store = <<>>
    /\ shard = <<>>
    /\ dw = <<>>
    /\ multi = <<>>

NextMail ==
    \/ \E n \in MailReq : MailHandle(n)
    \/ \E n \in MailReq : MailRespond(n)
    \/ \E n \in MailReq : MailRunTask(n)

SpecMail == InitMail /\ [][NextMail]_vars

\* -------------------------------------------- the DB session dependency
\* Concurrent requests to GET /api/items and GET /api/items/{item_id}.
NumDb == 3

DbReq == 1..NumDb

\* The endpoint and item_id of a request.
DbInputs ==
    { [endpoint |-> "list_items", item_id |-> ""],
      [endpoint |-> "get_item", item_id |-> "portal-gun"],
      [endpoint |-> "get_item", item_id |-> "1"] }

\* DBSession.__init__
DBSessionNew == [closed |-> FALSE, log |-> <<"open">>]

\* DBSession.query: raises on a closed session, else prints and returns
\* the rows.
DBSessionQuery(s) ==
    IF s.closed THEN [session |-> s, raised |-> "RuntimeError"]
    ELSE [session |-> [s EXCEPT !.log = Append(@, "query")],
          raised |-> "none"]

\* DBSession.close
DBSessionClose(s) == [s EXCEPT !.closed = TRUE, !.log = Append(@, "close")]

\* A faulty get_db that closes after the yield without try / finally.
GetDbExitNoFinally(s, raised) ==
    IF raised = "none" THEN DBSessionClose(s) ELSE s

\* get_db after its yield: finally: db.close(), whether or not an
\* exception was thrown into the generator.
GetDbExit(s, raised) == DBSessionClose(s)

\* The body of the handler: list_items queries; get_item raises OwnerError
\* for "portal-gun" and queries otherwise.
HandlerOutcome(endpoint, item_id, s) ==
    IF endpoint = "get_item" /\ item_id = "portal-gun"
    THEN [session |-> s, raised |-> "OwnerError"]
    ELSE DBSessionQuery(s)

\* The status of the response: current_username maps OwnerError to 400;
\* an error no dependency maps is the framework's 500.
DbStatus(raised) ==
    IF raised = "none" THEN 200
    ELSE IF raised = "OwnerError" THEN 400
    ELSE 500

IdleDb ==
    [pc |-> "idle", endpoint |-> "", item_id |-> "",
     session |-> [closed |-> FALSE, log |-> <<>>],
     raised |-> "none", status |-> 0]

\* The dependencies are entered: get_db creates the session and yields it.
DbEnter(n) ==
    /\ db[n].pc = "idle"
    /\ \E in \in DbInputs :
         db' = [db EXCEPT ![n] =
             [@ EXCEPT !.pc = "handler", !.endpoint = in.endpoint,
                       !.item_id = in.item_id, !.session = DBSessionNew]]
    /\ UNCHANGED <<coreVars, mail, mw, store, shard, dw, multi>>

\* The handler runs to its return or to its raise.
DbHandler(n) ==
    /\ db[n].pc = "handler"
    /\ LET h == HandlerOutcome(db[n].endpoint, db[n].item_id, db[n].session)
       IN  db' = [db EXCEPT ![n] =
               [@ EXCEPT !.pc = "exit", !.session = h.session,
                         !.raised = h.raised]]
    /\ UNCHANGED <<coreVars, mail, mw, store, shard, dw, multi>>

\* The generator of get_db is resumed, with the exception if there is one,
\* and the response is made.
DbExit(n) ==
    /\ db[n].pc = "exit"
    /\ db' = [db EXCEPT ![n] =
           [@ EXCEPT !.pc = "done",
                     !.session = GetDbExit(db[n].session, db[n].raised),
                     !.status = DbStatus(db[n].raised)]]
    /\ UNCHANGED <<coreVars, mail, mw, store, shard, dw, multi>>

InitDb ==
    /\ CoreIdle
    /\ mail = <<>>
    /\ db = [n \in DbReq |-> IdleDb]
    /\ mw = <<>>
    /\ store = <<>>
    /\ shard = <<>>
    /\ dw = <<>>
    /\ multi = <<>>

NextDb ==
    \/ \E n \in DbReq : DbEnter(n)
    \/ \E n \in DbReq : DbHandler(n)
    \/ \E n \in DbReq : DbExit(n)

SpecDb == InitDb /\ [][NextDb]_vars

\* ------------------------------------------------- the middleware stack
\* Concurrent requests to the application.
NumMw == 2

MwReq == 1..NumMw

\* The middlewares in the order main.py adds them: app.add_middleware
\* twice, then the three @app.middleware("http") functions.
Declared ==
    <<"CORSMiddleware", "GZipMiddleware", "maintenance_gate",
      "logging_middleware", "timing_header_middleware">>

\* app.add_middleware: the middleware is inserted at the front of the
\* list, whose first entry wraps every other.
AddMiddleware(stack, m) == <<m>> \o stack

\* The stack after the module is imported, outermost first.
RECURSIVE BuildStack(_)
BuildStack(decl) ==
    IF decl = <<>> THEN <<>>
    ELSE AddMiddleware(BuildStack(SubSeq(decl, 1, Len(decl) - 1)),
                       decl[Len(decl)])

MiddlewareStack == BuildStack(Declared)

\* The request paths: the health route, another route and no route.
MwPaths == {"/health", "/", "/nope"}

\* maintenance_gate: whether the request is answered 503 here.
GateBlocks(maintenance, path) == maintenance /\ path # "/health"

\* The router: the status of the route handler's response.
RouteStatus(path) == IF path \in {"/health", "/"} THEN 200 ELSE 404

IdleMw ==
    [pc |-> "idle", path |-> "", pos |-> 0, reached |-> <<>>,
     left |-> <<>>, status |-> 0, headers |-> {}]

\* A request arrives at the outermost middleware.
MwArrive(n) ==
    /\ mw.r[n].pc = "idle"
    /\ \E path \in MwPaths :
         mw' = [mw EXCEPT !.r[n] =
             [@ EXCEPT !.pc = "down", !.path = path, !.pos = 1]]
    /\ UNCHANGED <<coreVars, mail, db, store, shard, dw, multi>>

\* The middleware at pos runs up to its call_next, or returns its own
\* response: maintenance_gate with 503 and Retry-After.
MwEnter(n) ==
    /\ mw.r[n].pc = "down"
    /\ mw.r[n].pos <= Len(MiddlewareStack)
    /\ LET x == mw.r[n]
           m == MiddlewareStack[x.pos]
       IN  mw' = [mw EXCEPT !.r[n] =
               IF m = "maintenance_gate" /\ GateBlocks(mw.maintenance, x.path)
               THEN [x EXCEPT !.pc = "up", !.reached = Append(@, m),
                              !.status = 503,
                              !.headers = {"Retry-After"},
                              !.pos = x.pos - 1]
               ELSE [x EXCEPT !.reached = Append(@, m),
                              !.pos = x.pos + 1]]
    /\ UNCHANGED <<coreVars, mail, db, store, shard, dw, multi>>

\* The request has passed every middleware: the route handler answers.
MwRoute(n) ==
    /\ mw.r[n].pc = "down"
    /\ mw.r[n].pos > Len(MiddlewareStack)
    /\ mw' = [mw EXCEPT !.r[n] =
           [@ EXCEPT !.pc = "up", !.reached = Append(@, "handler"),
                     !.status = RouteStatus(mw.r[n].path),
                     !.pos = Len(MiddlewareStack)]]
    /\ UNCHANGED <<coreVars, mail, db, store, shard, dw, multi>>

\* call_next returns in the middleware at pos: timing_header_middleware
\* sets X-Process-Time, logging_middleware prints the status.
MwLeave(n) ==
    /\ mw.r[n].pc = "up"
    /\ LET x == mw.r[n]
       IN  mw' = [mw EXCEPT !.r[n] =
               IF x.pos = 0 THEN [x EXCEPT !.pc = "done"]
               ELSE [x EXCEPT !.left = Append(@, MiddlewareStack[x.pos]),
                              !.headers =
                                 IF MiddlewareStack[x.pos]
                                      = "timing_header_middleware"
                                 THEN @ \cup {"X-Process-Time"} ELSE @,
                              !.pos = x.pos - 1]]
    /\ UNCHANGED <<coreVars, mail, db, store, shard, dw, multi>>

InitMw ==
    /\ CoreIdle
    /\ mail = <<>>
    /\ db = <<>>
    /\ mw \in {[maintenance |-> b, r |-> [n \in MwReq |-> IdleMw]] :
                  b \in BOOLEAN}
    /\ store = <<>>
    /\ shard = <<>>
    /\ dw = <<>>
    /\ multi = <<>>

NextMw ==
    \/ \E n \in MwReq : MwArrive(n)
    \/ \E n \in MwReq : MwEnter(n)
    \/ \E n \in MwReq : MwRoute(n)
    \/ \E n \in MwReq : MwLeave(n)

SpecMw == InitMw /\ [][NextMw]_vars

\* ------------------------------------------- the body-update item store
\* The number of PUT and PATCH requests of a run.
MaxOps == 2

\* The fields of Item and ItemPatch.
Fields == {"name", "description", "price", "tax", "tags"}

\* The defaults of Item: None, None, None, 10.5, [].
Default(f) ==
    CASE f = "tax" -> "10.5"
      [] f = "tags" -> "[]"
      [] OTHER -> "null"

\* items at import: "foo" and "bar" store some of the fields only.
InitialItems ==
    [id \in {"foo", "bar", "baz"} |->
        CASE id = "foo" -> [f \in {"name", "price"} |->
                               IF f = "name" THEN "Foo" ELSE "50.2"]
          [] id = "bar" -> [f \in {"name", "description", "price", "tax"} |->
                               CASE f = "name" -> "Bar"
                                 [] f = "description" -> "The bartenders"
                                 [] f = "price" -> "62"
                                 [] OTHER -> "20.2"]
          [] OTHER -> [f \in Fields |->
                               CASE f = "name" -> "Baz"
                                 [] f = "price" -> "50.2"
                                 [] OTHER -> Default(f)]]

\* The ids of the requests: the three stored at import and one that is not.
ItemIds == {"foo", "bar", "baz", "qux"}

\* The request bodies: every set of fields given a new value, and one
\* field given an explicit null.
Payloads ==
    UNION {[S -> {"new"}] : S \in SUBSET Fields}
      \cup UNION {[{f} -> {"null"}] : f \in Fields}

\* The bodies Item accepts: tax and tags cannot be null.
ValidItem(payload) ==
    \A f \in DOMAIN payload :
        payload[f] = "null" => f \notin {"tax", "tags"}

\* Item(**data): the fields given, the others at their defaults.
ItemOf(data) ==
    [f \in Fields |-> IF f \in DOMAIN data THEN data[f] ELSE Default(f)]

\* A faulty patch.model_dump() that keeps the unset fields, as None.
UpdateDataWithUnset(patch) ==
    [f \in Fields |-> IF f \in DOMAIN patch THEN patch[f] ELSE "null"]

\* patch.model_dump(exclude_unset=True): the fields the client sent.
UpdateData(patch) == patch

\* stored_item_model.model_copy(update=update_data)
ModelCopy(model, update_data) ==
    [f \in Fields |->
        IF f \in DOMAIN update_data THEN update_data[f] ELSE model[f]]

\* replace_item: the new store and the response.
replace_item(its, item_id, payload) ==
    LET update_item_encoded == ItemOf(payload)
    IN  [items |-> [id \in DOMAIN its \cup {item_id} |->
                       IF id = item_id THEN update_item_encoded ELSE its[id]],
         status |-> 200, body |-> update_item_encoded]

\* patch_item: the new store and the response.
patch_item(its, item_id, payload) ==
    IF item_id \notin DOMAIN its
    THEN [items |-> its, status |-> 404, body |-> <<>>]
    ELSE LET stored_item_model == ItemOf(its[item_id])
             update_data == UpdateData(payload)
             updated_item == ModelCopy(stored_item_model, update_data)
         IN  [items |-> [id \in DOMAIN its |->
                            IF id = item_id THEN updated_item ELSE its[id]],
              status |-> 200, body |-> updated_item]

\* PUT /items/{item_id}
ReplaceItem ==
    /\ store.n < MaxOps
    /\ \E item_id \in ItemIds, payload \in Payloads :
         /\ ValidItem(payload)
         /\ LET o == replace_item(store.items, item_id, payload)
            IN  store' = [items |-> o.items, n |-> store.n + 1,
                          op |-> "put", id |-> item_id, payload |-> payload,
                          status |-> o.status, body |-> o.body]
    /\ UNCHANGED <<coreVars, mail, db, mw, shard, dw, multi>>

\* PATCH /items/{item_id}
PatchItem ==
    /\ store.n < MaxOps
    /\ \E item_id \in ItemIds, payload \in Payloads :
         LET o == patch_item(store.items, item_id, payload)
         IN  store' = [items |-> o.items, n |-> store.n + 1,
                       op |-> "patch", id |-> item_id, payload |-> payload,
                       status |-> o.status, body |-> o.body]
    /\ UNCHANGED <<coreVars, mail, db, mw, shard, dw, multi>>

InitStore ==
    /\ CoreIdle
    /\ mail = <<>>
    /\ db = <<>>
    /\ mw = <<>>
    /\ store = [items |-> InitialItems, n |-> 0, op |-> "none", id |-> "",
                payload |-> <<>>, status |-> 0, body |-> <<>>]
    /\ shard = <<>>
    /\ dw = <<>>
    /\ multi = <<>>

NextStore == ReplaceItem \/ PatchItem

SpecStore == InitStore /\ [][NextStore]_vars

\* --------------------------------------------------- POST /upload/multiple
\* The most files of one request.
MaxFiles == 2

\* The files of a request: a small image, an image over the limit, an
\* executable, and a PDF declared as text/plain.
MultiFiles ==
    { [filename |-> <<"a", ".", "p", "n", "g">>, content_type |-> None,
       n |-> 1],
      [filename |-> <<"a", ".", "p", "n", "g">>, content_type |-> None,
       n |-> MAX_FILE_SIZE_BYTES + 1],
      [filename |-> <<"m", ".", "e", "x", "e">>, content_type |-> None,
       n |-> 1],
      [filename |-> <<"a", ".", "p", "d", "f">>,
       content_type |-> "text/plain", n |-> CHUNK_SIZE + 1] }

MultiInputs == UNION {[1..k -> MultiFiles] : k \in 0..MaxFiles}

\* The detail of a validation error of upload_multiple, which names the
\* original filename after the text.
MultiDetail(detail) ==
    IF detail = "Unsupported file extension" THEN "Unsupported extension"
    ELSE detail

IdleMulti ==
    [pc |-> "idle", files |-> <<>>, k |-> 0, cur |-> IdleRequest,
     results |-> <<>>, status |-> 0, detail |-> ""]

\* The request arrives: if not files, 400.
MultiStart ==
    /\ multi.pc = "idle"
    /\ \E fs \in MultiInputs :
         multi' = IF fs = <<>>
                  THEN [multi EXCEPT !.pc = "done", !.status = 400,
                                     !.detail = "No files uploaded"]
                  ELSE [multi EXCEPT !.pc = "next", !.files = fs, !.k = 1]
    /\ UNCHANGED <<uploadVars, uuids, sanVars, valVars, wr, chainVars,
                   mail, db, mw, store, shard, dw>>

\* The loop body for file k up to the first await of the writer:
\* validation, _unique_destination, the destination created empty.
MultiBegin ==
    /\ multi.pc = "next"
    /\ multi.k <= Len(multi.files)
    /\ LET f == multi.files[multi.k]
           b == UploadBegin(disk, uuids, f.filename, f.content_type)
       IN  /\ b.uuids <= MaxUuid
           /\ disk' = b.disk
           /\ uuids' = b.uuids
           /\ io' = io \cup {<<"create", p>> : p \in b.created}
           /\ multi' =
                IF b.status # 0
                THEN [multi EXCEPT !.pc = "done", !.status = b.status,
                                   !.detail = MultiDetail(b.detail)]
                ELSE [multi EXCEPT !.pc = "read",
                         !.cur = [IdleRequest EXCEPT
                                     !.filename = f.filename,
                                     !.content_type = f.content_type,
                                     !.stream = StreamOf(multi.k, f.n),
                                     !.safe = b.safe, !.dest = b.dest]]
    /\ UNCHANGED <<req, resp, deleted, faults, sanVars, valVars, wr,
                   chainVars, mail, db, mw, store, shard, dw>>

\* chunk = await f.read(CHUNK_SIZE) and the loop body up to the write; at
\* the end of the stream the FileMeta of the file is appended.
MultiRead ==
    /\ multi.pc = "read"
    /\ LET x == multi.cur
           chunk == ReadStream(x.stream, x.pos, CHUNK_SIZE)
           total == AddTotal(x.total, chunk)
       IN  IF StreamExhausted(chunk)
           THEN /\ multi' = [multi EXCEPT
                               !.pc = "next", !.k = @ + 1,
                               !.results = Append(@, FileMetaOf(x, x.total))]
                /\ UNCHANGED <<disk, io>>
           ELSE IF ExceedsLimit(total, MAX_FILE_SIZE_BYTES)
           THEN /\ disk' = UnlinkMissingOk(disk, x.dest)
                /\ io' = io \cup {<<"unlink", x.dest>>}
                /\ multi' = [multi EXCEPT !.pc = "done", !.status = 413,
                                          !.detail = "File too large"]
           ELSE /\ multi' = [multi EXCEPT
                               !.pc = "write", !.cur.chunk = chunk,
                               !.cur.total = total,
                               !.cur.pos = @ + Len(chunk)]
                /\ UNCHANGED <<disk, io>>
    /\ UNCHANGED <<req, uuids, resp, deleted, faults, sanVars, valVars, wr,
                   chainVars, mail, db, mw, store, shard, dw>>

\* await asyncio.to_thread(_write_chunk, dest, chunk) completes.
MultiWrite ==
    /\ multi.pc = "write"
    /\ disk' = _write_chunk(disk, multi.cur.dest, multi.cur.chunk)
    /\ io' = io \cup {<<"write", multi.cur.dest>>}
    /\ multi' = [multi EXCEPT !.pc = "read"]
    /\ UNCHANGED <<req, uuids, resp, deleted, faults, sanVars, valVars, wr,
                   chainVars, mail, db, mw, store, shard, dw>>

\* The loop has ended: return MultiFileResponse(files=results).
MultiReturn ==
    /\ multi.pc = "next"
    /\ multi.k > Len(multi.files)
    /\ multi' = [multi EXCEPT !.pc = "done", !.status = 200]
    /\ UNCHANGED <<uploadVars, uuids, sanVars, valVars, wr, chainVars,
                   mail, db, mw, store, shard, dw>>

InitMulti ==
    /\ CoreIdle
    /\ mail = <<>>
    /\ db = <<>>
    /\ mw = <<>>
    /\ store = <<>>
    /\ shard = <<>>
    /\ dw = <<>>
    /\ multi = IdleMulti

NextMulti ==
    \/ MultiStart
    \/ MultiBegin
    \/ MultiRead
    \/ MultiWrite
    \/ MultiReturn

SpecMulti == InitMulti /\ [][NextMulti]_vars

\* -------------------------------------- deletions in several worker processes
\* The worker processes of gunicorn that each serve one DELETE.
NumWorkers == 3

Workers == 1..NumWorkers

\* The stored names of two files returned by earlier uploads.
StoredNames ==
    { <<"a", "_", "_", "1", ".", "p", "n", "g">>,
      <<"a", "_", "_", "2", ".", "p", "d", "f">> }

\* The upload directory with the files of the names in S.
StoredDisk(S) == [p \in {ResolveInUploadDir(nm) : nm \in S} |-> <<1>>]

IdleWorker == [pc |-> "idle", name |-> <<>>, path |-> <<>>, status |-> 0]

\* delete_file in worker w up to file_path.unlink(): sanitizing, the
\* containment check and the exists / is_file test.
DwCheck(w) ==
    /\ dw.w[w].pc = "idle"
    /\ \E name \in StoredNames :
         LET g == delete_file(dw.disk, name, Uuid4Hex(1))
         IN  dw' = [dw EXCEPT !.w[w] =
                 IF g.status = 204
                 THEN [pc |-> "checked", name |-> name, path |-> g.path,
                       status |-> 0]
                 ELSE [pc |-> "done", name |-> name, path |-> g.path,
                       status |-> g.status]]
    /\ UNCHANGED <<coreVars, mail, db, mw, store, shard, multi>>

\* file_path.unlink() in worker w: it raises FileNotFoundError when
\* another worker has removed the file since the test.
DwUnlink(w) ==
    /\ dw.w[w].pc = "checked"
    /\ LET path == dw.w[w].path
           unlink_raised == path \notin DOMAIN dw.disk
       IN  dw' = [dw EXCEPT !.disk = Unlink(@, path),
                            !.w[w].pc = "done",
                            !.w[w].status = DeleteOutcome(unlink_raised)]
    /\ UNCHANGED <<coreVars, mail, db, mw, store, shard, multi>>

InitDw ==
    /\ CoreIdle
    /\ mail = <<>>
    /\ db = <<>>
    /\ mw = <<>>
    /\ store = <<>>
    /\ shard = <<>>
    /\ dw \in {[disk |-> StoredDisk(S), initial |-> S,
                w |-> [w \in Workers |-> IdleWorker]] :
                  S \in SUBSET StoredNames}
    /\ multi = <<>>

NextDw ==
    \/ \E w \in Workers : DwCheck(w)
    \/ \E w \in Workers : DwUnlink(w)

SpecDw == InitDw /\ [][NextDw]_vars

\* ------------------------------------------------------- the test sharder
\* The most shards of a run.
MaxShards == 3

\* The paths os.walk("tests") can find, in the order sorted() gives them;
\* file is the name within its directory.
WalkPaths ==
    << [path |-> "tests/a/test_z.py",
        file |-> <<"t", "e", "s", "t", "_", "z", ".", "p", "y">>],
       [path |-> "tests/conftest.py",
        file |-> <<"c", "o", "n", "f", "t", "e", "s", "t", ".", "p", "y">>],
       [path |-> "tests/test_a.py",
        file |-> <<"t", "e", "s", "t", "_", "a", ".", "p", "y">>],
       [path |-> "tests/test_b.py",
        file |-> <<"t", "e", "s", "t", "_", "b", ".", "p", "y">>],
       [path |-> "tests/test_c.py",
        file |-> <<"t", "e", "s", "t", "_", "c", ".", "p", "y">>],
       [path |-> "tests/test_d.py",
        file |-> <<"t", "e", "s", "t", "_", "d", ".", "p", "y">>],
       [path |-> "tests/test_e.txt",
        file |-> <<"t", "e", "s", "t", "_", "e", ".", "t", "x", "t">>] >>

EndsWith(s, suffix) ==
    /\ Len(suffix) <= Len(s)
    /\ SubSeq(s, Len(s) - Len(suffix) + 1, Len(s)) = suffix

\* file.startswith("test_") and file.endswith(".py")
IsTestFile(file) ==
    /\ StartsWith(file, <<"t", "e", "s", "t", "_">>)
    /\ EndsWith(file, <<".", "p", "y">>)

\* get_test_files with the paths numbered in present under tests/: the
\* test files among them, sorted.
RECURSIVE get_test_files(_, _)
get_test_files(present, k) ==
    IF k > Len(WalkPaths) THEN <<>>
    ELSE (IF k \in present /\ IsTestFile(WalkPaths[k].file)
          THEN <<WalkPaths[k].path>> ELSE <<>>)
         \o get_test_files(present, k + 1)

\* A faulty selection that compares the index with shard, not shard - 1.
RECURSIVE SelectedOffByOne(_, _, _, _)
SelectedOffByOne(files, i, sh, total_shards) ==
    IF i >= Len(files) THEN <<>>
    ELSE (IF i % total_shards = sh THEN <<files[i + 1]>> ELSE <<>>)
         \o SelectedOffByOne(files, i + 1, sh, total_shards)

\* [f for i, f in enumerate(files) if i % total_shards == (shard - 1)],
\* from index i on; sh is the argument shard.
RECURSIVE Selected(_, _, _, _)
Selected(files, i, sh, total_shards) ==
    IF i >= Len(files) THEN <<>>
    ELSE (IF i % total_shards = sh - 1 THEN <<files[i + 1]>> ELSE <<>>)
         \o Selected(files, i + 1, sh, total_shards)

NotRun == [ran |-> FALSE, selected |-> <<>>, pytest |-> FALSE]

\* main() with argv = shard, total_shards: pytest runs when a file is
\* selected.
RunShard(s) ==
    /\ s \in 1..shard.total_shards
    /\ ~shard.runs[s].ran
    /\ LET files == get_test_files(shard.present, 1)
           selected == Selected(files, 0, s, shard.total_shards)
       IN  shard' = [shard EXCEPT !.runs[s] =
               [ran |-> TRUE, selected |-> selected,
                pytest |-> selected # <<>>]]
    /\ UNCHANGED <<coreVars, mail, db, mw, store, dw, multi>>

InitShard ==
    /\ CoreIdle
    /\ mail = <<>>
    /\ db = <<>>
    /\ mw = <<>>
    /\ store = <<>>
    /\ shard \in {[present |-> S, total_shards |-> n,
                   runs |-> [s \in 1..n |-> NotRun]] :
                     S \in SUBSET (1..Len(WalkPaths)), n \in 1..MaxShards}
    /\ dw = <<>>
    /\ multi = <<>>

NextShard == \E s \in 1..MaxShards : RunShard(s)

SpecShard == InitShard /\ [][NextShard]_vars

\* ------------------------------------------------------------- properties
\* The bytes of request r's stream, and the bytes a stored file holds.
BytesOf(r) == {req[r].stream[i] : i \in 1..Len(req[r].stream)}

FileBytes(p) == {disk[p][i] : i \in 1..Len(disk[p])}

\* No stored file holds a byte of request r's stream.
NoBytesOnDisk(r) == \A p \in DOMAIN disk : FileBytes(p) \cap BytesOf(r) = {}

\* The path is the storage root or lies below it.
WithinRoot(p) == p = UPLOAD_DIR \/ StartsWith(p, UPLOAD_DIR \o <<"/">>)

\* The number of bytes request r has appended to its destination.
Written(r) ==
    IF req[r].pc = "write" THEN req[r].total - Len(req[r].chunk)
    ELSE req[r].total

Returned(r) == req[r].meta # NoMeta

\* C1: an upload that passed validation and whose stream is longer than
\* max_bytes ends with HTTP 413 carrying the configured limit, and once it
\* has failed so, no file exists at its destination and no stored file
\* holds a byte of its stream.
C1_OverLimitLeavesNoFile ==
    \A r \in Req :
        /\ (req[r].pc = "done" /\ req[r].status # 400
                /\ Len(req[r].stream) > MAX_FILE_SIZE_BYTES)
             => req[r].status = 413
        /\ req[r].status = 413
             => /\ req[r].limit = MAX_FILE_SIZE_BYTES
                /\ req[r].detail = "File too large"
                /\ Len(req[r].stream) > MAX_FILE_SIZE_BYTES
                /\ req[r].dest \notin DOMAIN disk
                /\ NoBytesOnDisk(r)

\* An upload failed with 413 after it had written chunks to its file.
C1_Witness ==
    \E r \in Req :
        /\ req[r].status = 413
        /\ <<"write", req[r].dest>> \in io
        /\ <<"unlink", req[r].dest>> \in io

\* C2: an upload that passed validation and whose stream has n <= max_bytes
\* bytes (n = max_bytes included) succeeds, and its record has
\* size_bytes = n.
C2_WithinLimitSucceeds ==
    \A r \in Req :
        (req[r].pc = "done" /\ req[r].status # 400
            /\ Len(req[r].stream) <= MAX_FILE_SIZE_BYTES)
          => /\ req[r].status = 201
             /\ Returned(r)
             /\ req[r].meta[1].size_bytes = Len(req[r].stream)

\* An upload of exactly max_bytes bytes has succeeded.
C2_Witness ==
    \E r \in Req :
        /\ req[r].status = 201
        /\ Len(req[r].stream) = MAX_FILE_SIZE_BYTES
        /\ req[r].meta[1].size_bytes = MAX_FILE_SIZE_BYTES

\* C3: the size_bytes of a returned record is the number of bytes the
\* stored file holds (as long as the file has not been deleted, a stored
\* file never changing after the return).
C3_SizeIsBytesStored ==
    \A r \in Req :
        (Returned(r) /\ req[r].dest \notin deleted)
          => /\ req[r].dest \in DOMAIN disk
             /\ req[r].meta[1].size_bytes = Len(disk[req[r].dest])

\* A record was returned for a stream whose last chunk is shorter than
\* CHUNK_SIZE, and the file is on storage.
C3_Witness ==
    \E r \in Req :
        /\ Returned(r)
        /\ req[r].dest \in DOMAIN disk
        /\ Len(disk[req[r].dest]) = CHUNK_SIZE + 1

\* C4: a record is returned only after the whole stream has been read and
\* written; an upload that fails validation or the size limit returns no
\* record and leaves none of its bytes on storage.
C4_RecordOnlyAfterWholeStream ==
    \A r \in Req :
        /\ Returned(r)
             => /\ req[r].pc = "done"
                /\ req[r].status = 201
                /\ req[r].consumed = Len(req[r].stream)
                /\ req[r].dest \notin deleted
                     => /\ req[r].dest \in DOMAIN disk
                        /\ disk[req[r].dest] = req[r].stream
        /\ req[r].pc # "done" => ~Returned(r)
        /\ req[r].status \in {400, 413}
             => /\ ~Returned(r)
                /\ req[r].dest \notin DOMAIN disk
                /\ NoBytesOnDisk(r)

\* A record was returned for a stream of several chunks.
C4_Witness ==
    \E r \in Req :
        /\ Returned(r)
        /\ Len(req[r].stream) > CHUNK_SIZE
        /\ req[r].consumed = Len(req[r].stream)

\* C5: a step in which an upload is rejected by validation (HTTP 400)
\* leaves the set of stored files and their contents as they were and
\* performs no file operation.
C5_ValidationFailsBeforeAnyWrite ==
    [][\A r \in Req :
          (req[r].status # 400 /\ req'[r].status = 400)
            => (disk' = disk /\ io' = io)]_vars

\* The upload of "m.exe" was rejected for its extension.
C5_Witness ==
    \E r \in Req :
        /\ req[r].status = 400
        /\ req[r].detail = "Unsupported file extension"
        /\ req[r].filename = <<"m", ".", "e", "x", "e">>

\* C6: every path an upload, a retrieval or a deletion resolves lies within
\* the storage root, or the operation is rejected with HTTP 400 before any
\* file operation; every file operation performed and every stored file is
\* within the storage root.
C6_PathsStayWithinRoot ==
    /\ \A e \in io : WithinRoot(e[2])
    /\ \A p \in DOMAIN disk : WithinRoot(p)
    /\ resp.op # "none"
         => WithinRoot(resp.path) \/ resp.status = 400
    /\ \A r \in Req :
         req[r].dest # <<>>
           => \/ WithinRoot(req[r].dest)
              \/ req[r].status = 400 /\ \A e \in io : e[2] # req[r].dest

\* A deletion of ".." was rejected, and an upload named "../a.pdf" is
\* stored.
C6_Witness ==
    /\ resp.op = "delete"
    /\ resp.status = 400
    /\ resp.path = <<"/", "v">>
    /\ \E r \in Req :
         /\ req[r].filename = <<".", ".", "/", "a", ".", "p", "d", "f">>
         /\ req[r].status = 201

\* C7: the destinations and the returned stored names of the uploads of a
\* run are pairwise distinct, also for identical original filenames, and
\* the file of a completed upload keeps its content until it is deleted.
C7_StoredNamesDistinct ==
    \A r1 \in Req, r2 \in Req :
        /\ (r1 # r2 /\ req[r1].dest # <<>> /\ req[r2].dest # <<>>)
             => req[r1].dest # req[r2].dest
        /\ (r1 # r2 /\ Returned(r1) /\ Returned(r2))
             => req[r1].meta[1].filename # req[r2].meta[1].filename
        /\ (req[r1].status = 201 /\ req[r1].dest \notin deleted)
             => /\ req[r1].dest \in DOMAIN disk
                /\ disk[req[r1].dest] = req[r1].stream

\* Two uploads of the same original filename have both succeeded.
C7_Witness ==
    \E r1 \in Req, r2 \in Req :
        /\ r1 # r2
        /\ req[r1].status = 201
        /\ req[r2].status = 201
        /\ req[r1].filename = req[r2].filename

\* C8: concurrent uploads never collide: every stored file is the
\* destination of exactly one upload and holds exactly the bytes that
\* upload has appended so far, in the order of its stream; the file of a
\* completed upload is its whole stream.
C8_ConcurrentUploadsDoNotCollide ==
    /\ \A p \in DOMAIN disk :
         \E r \in Req :
            /\ req[r].dest = p
            /\ \A q \in Req : req[q].dest = p => q = r
            /\ disk[p] = SubSeq(req[r].stream, 1, Written(r))
    /\ \A r \in Req :
         (req[r].pc \in {"read", "write", "seek"}
            \/ (req[r].status = 201 /\ req[r].dest \notin deleted))
           => /\ req[r].dest \in DOMAIN disk
              /\ disk[req[r].dest] = SubSeq(req[r].stream, 1, Written(r))
    /\ \A r \in Req :
         req[r].status = 201 => Written(r) = Len(req[r].stream)

\* Two uploads are in flight at once, each with a chunk handed to the
\* thread pool, the first one already at its second chunk.
C8_Witness ==
    /\ req[1].pc = "write"
    /\ req[2].pc = "write"
    /\ req[1].total = 2 * CHUNK_SIZE
    /\ req[2].total = CHUNK_SIZE

\* C9: a retrieval by the stored name of a successful upload whose file has
\* not been deleted answers 200 with the bytes of the uploaded stream, as
\* many as the record's size_bytes.
C9_RoundTrip ==
    \A r \in Req :
        (Returned(r) /\ req[r].dest \notin deleted)
          => /\ LET g == get_file(disk, req[r].meta[1].filename,
                                  Uuid4Hex(uuids + 1))
                IN  /\ g.status = 200
                    /\ g.body = req[r].stream
                    /\ Len(g.body) = req[r].meta[1].size_bytes
             /\ (resp.op = "get" /\ resp.name = req[r].meta[1].filename)
                  => /\ resp.status = 200
                     /\ resp.body = req[r].stream
                     /\ Len(resp.body) = req[r].meta[1].size_bytes

\* A retrieval has returned a stored file of several chunks.
C9_Witness ==
    /\ resp.op = "get"
    /\ resp.status = 200
    /\ Len(resp.body) > CHUNK_SIZE
    /\ \E r \in Req : Returned(r) /\ resp.name = req[r].meta[1].filename

\* The characters [A-Za-z0-9._-] among the characters of the model.
NameChars ==
    {"a", "b", "d", "e", "f", "g", "i", "j", "l", "m", "n", "o", "p", "u",
     "x", "P", "N", "G", "1", "2", "3", "4", "5", "6", "7", "8", "9",
     ".", "_", "-"}

PureBasename(s) == s # <<>> /\ \A i \in 1..Len(s) : s[i] \in NameChars

\* C10: for every input string the sanitizer returns a non-empty string of
\* characters in [A-Za-z0-9._-], and the stored filename built from it is a
\* non-empty string of those characters (so without a path separator).
C10_SanitizedNameIsPureBasename ==
    /\ sanPc # "in" => PureBasename(sanOut)
    /\ sanPc = "named" => PureBasename(sanDest)

\* The stored filename of an input with a path separator whose last
\* component sanitizes to the empty string.
C10_Witness ==
    /\ sanPc = "named"
    /\ \E i \in 1..Len(sanIn) : sanIn[i] = "/"
    /\ SanitizeUsesUuid(sanIn)

\* C11: the sanitizer is idempotent: sanitizing an output of the sanitizer
\* (the sanitized name, a synthesized file_<token> name, a stored filename)
\* returns it unchanged.
C11_SanitizerIdempotent ==
    sanPc = "again" => (sanAgain = sanOut /\ sanDestAgain = sanDest)

\* C12: validation accepts exactly when the extension of the sanitized
\* filename, lower-cased, is in the extension allow-list and the effective
\* content type (the declared type when allow-listed, else the type
\* inferred from the extension) is in the MIME allow-list; a disallowed
\* extension is answered "Unsupported file extension", an allowed extension
\* without an allow-listed effective type "Unsupported content type".
C12_ValidationAcceptsExactly ==
    valRes # <<>> =>
        LET b == valRes[1]
            safe == SanitizeFilename(OriginalName(sanIn), Uuid4Hex(1))
            extOk == \E e \in ALLOWED_EXTENSIONS : Lower(PathSuffix(safe)) = e
            effective == IF valCt \in ALLOWED_MIME_TYPES THEN valCt
                         ELSE GuessType(safe)
            typeOk == effective \in ALLOWED_MIME_TYPES
        IN  /\ b.status = 0 <=> (extOk /\ typeOk)
            /\ ~extOk => /\ b.status = 400
                         /\ b.detail = "Unsupported file extension"
            /\ (extOk /\ ~typeOk) => /\ b.status = 400
                                     /\ b.detail = "Unsupported content type"

\* An upload with an upper-case extension and a declared type outside the
\* allow-list was accepted on the type inferred from the extension.
C12_Witness ==
    /\ valRes # <<>>
    /\ valRes[1].status = 0
    /\ valCt = "text/plain"
    /\ sanIn = <<"a", " ", "b", ".", "P", "N", "G">>

\* The destination of writer i: <<content>> when the file exists, <<>>
\* when it does not.
WriterFile(i) ==
    IF WriterDest(i) \in DOMAIN wr.disk THEN <<wr.disk[WriterDest(i)]>>
    ELSE <<>>

\* C13: on the same stream and limit, the writer gives with either chunk
\* size the same result (success with the same total, or 413) and leaves
\* the same destination (the same content, or no file).
C13_ChunkSizeIndependent ==
    (wr # <<>> /\ \A i \in Writers : wr.w[i].pc = "done")
      => /\ wr.w[1].result = wr.w[2].result
         /\ wr.w[1].returned = wr.w[2].returned
         /\ WriterFile(1) = WriterFile(2)

\* Both runs have ended 413 on a limit one byte below the stream length,
\* which is a chunk boundary of the first run and not of the second.
C13_Witness ==
    /\ wr # <<>>
    /\ \A i \in Writers : wr.w[i].pc = "done" /\ wr.w[i].result = "413"
    /\ wr.max_bytes = Len(wr.stream) - 1
    /\ wr.max_bytes > 0
    /\ wr.max_bytes % wr.w[1].chunk_size = 0
    /\ wr.max_bytes % wr.w[2].chunk_size # 0

\* Writer i has counted more bytes than max_bytes.
OverLimit(i) == wr.w[i].total > wr.max_bytes

\* C14: once the running total exceeds max_bytes the writer has ended with
\* 413, and from then on it reads nothing more from the stream (its
\* position stays) and writes nothing more (its destination stays
\* absent): the read that exceeded the limit is its last.
C14_NoReadOrWriteAfterLimit ==
    [][wr # <<>> =>
         \A i \in Writers :
            /\ OverLimit(i)' =>
                  /\ wr'.w[i].pc = "done"
                  /\ wr'.w[i].result = "413"
                  /\ WriterFile(i)' = <<>>
            /\ OverLimit(i) =>
                  /\ wr'.w[i] = wr.w[i]
                  /\ WriterFile(i)' = WriterFile(i)]_vars

\* The first run has ended 413 with bytes of the stream still unread and
\* after it had written a chunk, and the second run has taken steps since.
C14_Witness ==
    /\ wr # <<>>
    /\ wr.w[1].result = "413"
    /\ wr.w[1].pos < Len(wr.stream)
    /\ wr.w[1].total > wr.w[1].chunk_size
    /\ wr.w[2].pc = "write"

\* A step of GET or DELETE /upload/files/{stored_name}: the uploads stay
\* as they are and resp' is the response of the step.
FileRequestStep == req' = req /\ <<disk, uuids, resp, io, deleted>>' #
                                  <<disk, uuids, resp, io, deleted>>

\* C16: a retrieval or deletion whose name resolves inside the storage
\* root to no regular file answers 404 and leaves the storage root as it
\* was.
C16_MissingFileIsNotFound ==
    [][(/\ FileRequestStep
        /\ WithinRoot(resp'.path)
        /\ ~(PathExists(disk, resp'.path) /\ PathIsFile(disk, resp'.path)))
          => /\ resp'.status = 404
             /\ resp'.body = <<>>
             /\ disk' = disk
             /\ deleted' = deleted]_vars

\* A deletion answered 404 for a file that was deleted before, while
\* another stored file exists.
C16_Witness ==
    /\ resp.op = "delete"
    /\ resp.status = 404
    /\ resp.path \in deleted
    /\ DOMAIN disk # {}

\* C17: deleting an existing stored name answers 204 and removes that file
\* and no other, every other file keeping its content; a deleted path is
\* never on disk again, and every later retrieval or deletion of it
\* answers 404.
C17_DeleteRemovesExactlyThatFile ==
    /\ [](\A p \in deleted : p \notin DOMAIN disk)
    /\ [][FileRequestStep =>
            /\ (resp'.op = "delete" /\ resp'.path \in DOMAIN disk)
                 => /\ resp'.status = 204
                    /\ DOMAIN disk' = DOMAIN disk \ {resp'.path}
                    /\ \A q \in DOMAIN disk' : disk'[q] = disk[q]
            /\ resp'.path \in deleted => resp'.status = 404]_vars

\* A stored file has been deleted while another stored file with content
\* remains, an upload has completed since on a new name, and a retrieval
\* of the deleted name has answered 404.
C17_Witness ==
    /\ resp.op = "get"
    /\ resp.status = 404
    /\ resp.path \in deleted
    /\ \E q \in DOMAIN disk : disk[q] # <<>>

\* C15: when the limit is exceeded and the unlink of the partial file
\* fails, the upload still answers 413 "File too large" with the limit and
\* the file stays; every other storage error is reported as 500.
C15_CleanupFailureIsSwallowed ==
    /\ \A f \in faults :
          /\ f.kind = "cleanup_unlink" => f.reported = 413
          /\ f.kind # "cleanup_unlink" => f.reported = 500
    /\ \A r \in Req :
          (\E f \in faults : f.kind = "cleanup_unlink" /\ f.path = req[r].dest
                             /\ req[r].pc = "done")
            => /\ req[r].status = 413
               /\ req[r].detail = "File too large"
               /\ req[r].limit = MAX_FILE_SIZE_BYTES

\* An upload over the limit has answered 413 although the unlink of its
\* partial file failed and the file, with the chunks written, is still
\* there.
C15_Witness ==
    \E r \in Req :
        /\ req[r].status = 413
        /\ req[r].dest \in DOMAIN disk
        /\ disk[req[r].dest] # <<>>
        /\ \E f \in faults : f.kind = "cleanup_unlink" /\ f.path = req[r].dest

\* C18: a deletion whose unlink fails answers 500 and the file is still
\* there, and a deletion that answers 204 has removed the file; an upload
\* whose chunk write fails ends with 500, has no record, and takes no
\* further step (the write is not tried again).
C18_StorageFailureIsSurfaced ==
    /\ [](/\ \A f \in faults :
               f.kind \in {"delete_unlink", "write"} => f.reported = 500
          /\ (resp.op = "delete" /\ resp.status = 500)
               => resp.path \in DOMAIN disk
          /\ (resp.op = "delete" /\ resp.status = 204)
               => resp.path \notin DOMAIN disk
          /\ \A r \in Req :
               /\ (\E f \in faults : f.kind = "write" /\ f.path = req[r].dest)
                    => req[r].pc = "done" /\ req[r].status = 500
               /\ req[r].status = 500 => req[r].meta = NoMeta)
    /\ [][\A r \in Req :
            req[r].status = 500
              => /\ req'[r] = req[r]
                 /\ req[r].dest \in DOMAIN disk
                      => /\ req[r].dest \in DOMAIN disk'
                         /\ disk'[req[r].dest] = disk[req[r].dest]]_vars

\* A deletion of a stored file with content has answered 500 because its
\* unlink failed, and the file is still stored with that content.
C18_Witness ==
    /\ resp.op = "delete"
    /\ resp.status = 500
    /\ resp.path \in DOMAIN disk
    /\ disk[resp.path] # <<>>
    /\ \E f \in faults : f.kind = "delete_unlink" /\ f.path = resp.path

\* C19: once the cancellation of an upload has been delivered and its
\* pending write has ended, no file of that upload is in the storage root.
C19_CancelledUploadLeavesNoFile ==
    \A r \in Req : req[r].pc = "cancelled" => req[r].dest \notin DOMAIN disk

\* The events of one request to the chain endpoint, in order.
ChainOrder ==
    << <<"DepA", "open">>, <<"DepB", "open">>, <<"DepC", "open">>,
       <<"chain", "handler">>,
       <<"DepC", "close">>, <<"DepB", "close">>, <<"DepA", "close">> >>

\* C20: the events of every request to the chain endpoint are a prefix of
\* DepA open, DepB open, DepC open, handler, DepC close, DepB close,
\* DepA close, the whole of it when the request is done; so no resource is
\* closed before one acquired after it.
C20_ChainReleasesInReverseOrder ==
    \A c \in DOMAIN events :
        /\ Len(events[c]) <= Len(ChainOrder)
        /\ events[c] = SubSeq(ChainOrder, 1, Len(events[c]))
        /\ chain[c].pc = "done" => events[c] = ChainOrder
        /\ chain[c].pc \in {"idle", "solve"}
             => \A i \in 1..Len(events[c]) : events[c][i][2] = "open"

\* One request is done with its seven events while another, started in
\* between, has released DepC and still holds DepB and DepA.
C20_Witness ==
    \E c, e \in DOMAIN events :
        /\ c # e
        /\ chain[c].pc = "done"
        /\ events[c] = ChainOrder
        /\ chain[e].stack = <<"DepA", "DepB">>
        /\ Len(events[e]) = 5
CountIn(log, e) == Cardinality({i \in 1..Len(log) : log[i] = e})

\* C22: in every request the session's log is open, then queries, then at
\* most one close, which is last; a finished request has closed its
\* session exactly once, also when its handler raised; and no query was
\* made on a closed session.
C22_SessionClosedExactlyOnce ==
    \A n \in DOMAIN db :
        LET log == db[n].session.log
        IN  /\ db[n].pc # "idle" => (log # <<>> /\ log[1] = "open")
            /\ CountIn(log, "open") <= 1
            /\ CountIn(log, "close") <= 1
            /\ \A i \in 1..Len(log) : log[i] = "close" => i = Len(log)
            /\ db[n].session.closed <=> CountIn(log, "close") = 1
            /\ db[n].pc = "done" => CountIn(log, "close") = 1
            /\ db[n].raised # "RuntimeError"

\* A request whose handler raised OwnerError has closed its session
\* without a query and answered 400, and another has queried and closed.
C22_Witness ==
    \E n, k \in DOMAIN db :
        /\ db[n].pc = "done"
        /\ db[n].raised = "OwnerError"
        /\ db[n].status = 400
        /\ db[n].session.log = <<"open", "close">>
        /\ db[k].pc = "done"
        /\ db[k].session.log = <<"open", "query", "close">>
\* The middlewares and the handler a request has reached.
Reached(n) == {mw.r[n].reached[i] : i \in 1..Len(mw.r[n].reached)}

\* C23: the maintenance gate is the first middleware a request reaches;
\* with maintenance on, a finished request to a path other than /health
\* has status 503 with Retry-After and has reached neither
\* logging_middleware nor timing_header_middleware nor a handler, and a
\* request to /health has reached its handler.
C23_MaintenanceGateOutermost ==
    \A n \in DOMAIN mw.r :
        LET x == mw.r[n]
        IN  /\ x.reached # <<>> => x.reached[1] = "maintenance_gate"
            /\ (mw.maintenance /\ x.pc = "done" /\ x.path # "/health")
                 => /\ x.status = 503
                    /\ "Retry-After" \in x.headers
                    /\ Reached(n) \cap {"logging_middleware",
                                        "timing_header_middleware",
                                        "handler"} = {}
            /\ (mw.maintenance /\ x.pc = "done" /\ x.path = "/health")
                 => x.status = 200 /\ "handler" \in Reached(n)
\* The other items are as they were and no other id has appeared.
OtherItemsKept(id) ==
    /\ DOMAIN store'.items \ {id} = DOMAIN store.items \ {id}
    /\ \A k \in DOMAIN store.items \ {id} : store'.items[k] = store.items[k]

C25_FileNeverExceedsLimit ==
    wr # <<>> =>
        \A i \in Writers :
            WriterFile(i) # <<>> =>
                /\ Len(WriterFile(i)[1]) <= wr.max_bytes
                /\ WriterFile(i)[1]
                     = SubSeq(wr.stream, 1, Len(WriterFile(i)[1]))

\* The file of the first run holds exactly max_bytes bytes, written in
\* several chunks, and the stream has more: the next chunk is over the
\* limit.
C25_Witness ==
    /\ wr # <<>>
    /\ wr.w[1].pc = "read"
    /\ WriterFile(1) # <<>>
    /\ Len(WriterFile(1)[1]) = wr.max_bytes
    /\ wr.max_bytes > wr.w[1].chunk_size
    /\ wr.w[1].pos < Len(wr.stream)
\* The stored names the response of the multi-file request has returned.
MultiReturnedNames ==
    IF multi.pc = "done" /\ multi.status = 200
    THEN {multi.results[i].filename : i \in 1..Len(multi.results)}
    ELSE {}

\* C26: once the multi-file request has ended, every file in the storage
\* root has a name its response returned; a request that ended in an
\* error has left no file.
C26_OnlyReturnedFilesStored ==
    (multi # <<>> /\ multi.pc = "done")
      => \A p \in DOMAIN disk : PathName(p) \in MultiReturnedNames
\* C27: the content_type of every record a successful upload returned is
\* in the MIME allow-list.
C27_RecordTypeIsAllowed ==
    \A r \in Req :
        Returned(r) => req[r].meta[1].content_type \in ALLOWED_MIME_TYPES

\* C28: an upload with an allow-listed declared type whose filename is
\* missing, empty or sanitizes to the empty string passes validation under
\* its synthesized name.
C28_UnusableNameIsHealed ==
    (/\ valRes # <<>>
     /\ valCt \in ALLOWED_MIME_TYPES
     /\ (sanIn = <<>> \/ SanitizeUsesUuid(sanIn)))
      => valRes[1].status = 0
\* The workers that have answered a deletion of name with status.
Answered(name, status) ==
    {w \in DOMAIN dw.w : dw.w[w].pc = "done" /\ dw.w[w].name = name
                         /\ dw.w[w].status = status}

\* C29: of the deletions of one stored name that existed, run in
\* different workers, none answers 500; once all that began have
\* answered, exactly one has answered 204, the others 404, and the file
\* is gone.
C29_ConcurrentDeletesOneSuccess ==
    dw # <<>> =>
        \A name \in dw.initial :
            /\ Answered(name, 500) = {}
            /\ Cardinality(Answered(name, 204)) <= 1
            /\ (/\ Answered(name, 204) \cup Answered(name, 404) # {}
                /\ \A w \in DOMAIN dw.w :
                      dw.w[w].name = name => dw.w[w].pc = "done")
                 => /\ Cardinality(Answered(name, 204)) = 1
                    /\ ResolveInUploadDir(name) \notin DOMAIN dw.disk
\* The set of the files a shard has selected.
SelectedSet(s) ==
    {shard.runs[s].selected[i] : i \in 1..Len(shard.runs[s].selected)}

\* C30: the shards that have run selected pairwise disjoint sets of the
\* sorted test files, file i (from 0) is in the selection of shard
\* (i mod N) + 1 and of no other, the selections' sizes differ by at most
\* one, the selections of all N shards together are the whole list, and a
\* shard runs pytest exactly when it selected a file.
C30_ShardsPartitionTheFiles ==
    shard # <<>> =>
        LET N == shard.total_shards
            files == get_test_files(shard.present, 1)
            done == {s \in 1..N : shard.runs[s].ran}
        IN  /\ \A s, t \in done :
                  s # t => SelectedSet(s) \cap SelectedSet(t) = {}
            /\ \A s \in done :
                  /\ SelectedSet(s) =
                        {files[i + 1] : i \in {j \in 0..(Len(files) - 1) :
                                                  (j % N) + 1 = s}}
                  /\ Len(shard.runs[s].selected)
                        = Cardinality(SelectedSet(s))
                  /\ shard.runs[s].pytest <=> shard.runs[s].selected # <<>>
            /\ \A s, t \in done :
                  Len(shard.runs[s].selected) - Len(shard.runs[t].selected)
                     <= 1
            /\ done = 1..N
                 => UNION {SelectedSet(s) : s \in done}
                       = {files[i] : i \in 1..Len(files)}
            /\ \A s \in 1..N : ~shard.runs[s].ran => ~shard.runs[s].pytest

\* All of three shards have run on four test files found beside two
\* files that are no tests: the first shard selected two files, the third
\* one.
C30_Witness ==
    /\ shard # <<>>
    /\ shard.total_shards = 3
    /\ \A s \in 1..3 : shard.runs[s].ran
    /\ Len(get_test_files(shard.present, 1)) = 4
    /\ {2, 7} \subseteq shard.present
    /\ Len(shard.runs[1].selected) = 2
    /\ Len(shard.runs[3].selected) = 1
====
